---- MODULE Spec2Model ----
(***************************************************************************)
(* Model of scripts/deepresearch_collector.py (DeepResearchCollector) and  *)
(* scripts/slack_notifier.py (SlackNotifier).                              *)
(*                                                                         *)
(* Text is modelled as a sequence of characters; a character outside ASCII *)
(* is written as the string "Uxxxx" of its Unicode code point, so that     *)
(* str.replace and string concatenation are computed character by          *)
(* character as Python computes them.                                      *)
(***************************************************************************)
EXTENDS FiniteSets, Integers, Sequences, TLC

\* The three characters that the collector removes from a prefecture name.
KEN == "U770C"
TO == "U90FD"
FU == "U5E9C"

\* self.prefectures, in source order.
prefectures ==
    <<
       <<"U5317", "U6D77", "U9053">>,  \*  1 Hokkaido
       <<"U9752", "U68EE", KEN>>,  \*  2 Aomori
       <<"U5CA9", "U624B", KEN>>,  \*  3 Iwate
       <<"U5BAE", "U57CE", KEN>>,  \*  4 Miyagi
       <<"U79CB", "U7530", KEN>>,  \*  5 Akita
       <<"U5C71", "U5F62", KEN>>,  \*  6 Yamagata
       <<"U798F", "U5CF6", KEN>>,  \*  7 Fukushima
       <<"U8328", "U57CE", KEN>>,  \*  8 Ibaraki
       <<"U6803", "U6728", KEN>>,  \*  9 Tochigi
       <<"U7FA4", "U99AC", KEN>>,  \* 10 Gunma
       <<"U57FC", "U7389", KEN>>,  \* 11 Saitama
       <<"U5343", "U8449", KEN>>,  \* 12 Chiba
       <<"U6771", "U4EAC", TO>>,  \* 13 Tokyo
       <<"U795E", "U5948", "U5DDD", KEN>>,  \* 14 Kanagawa
       <<"U65B0", "U6F5F", KEN>>,  \* 15 Niigata
       <<"U5BCC", "U5C71", KEN>>,  \* 16 Toyama
       <<"U77F3", "U5DDD", KEN>>,  \* 17 Ishikawa
       <<"U798F", "U4E95", KEN>>,  \* 18 Fukui
       <<"U5C71", "U68A8", KEN>>,  \* 19 Yamanashi
       <<"U9577", "U91CE", KEN>>,  \* 20 Nagano
       <<"U5C90", "U961C", KEN>>,  \* 21 Gifu
       <<"U9759", "U5CA1", KEN>>,  \* 22 Shizuoka
       <<"U611B", "U77E5", KEN>>,  \* 23 Aichi
       <<"U4E09", "U91CD", KEN>>,  \* 24 Mie
       <<"U6ECB", "U8CC0", KEN>>,  \* 25 Shiga
       <<"U4EAC", TO, FU>>,  \* 26 Kyoto
       <<"U5927", "U962A", FU>>,  \* 27 Osaka
       <<"U5175", "U5EAB", KEN>>,  \* 28 Hyogo
       <<"U5948", "U826F", KEN>>,  \* 29 Nara
       <<"U548C", "U6B4C", "U5C71", KEN>>,  \* 30 Wakayama
       <<"U9CE5", "U53D6", KEN>>,  \* 31 Tottori
       <<"U5CF6", "U6839", KEN>>,  \* 32 Shimane
       <<"U5CA1", "U5C71", KEN>>,  \* 33 Okayama
       <<"U5E83", "U5CF6", KEN>>,  \* 34 Hiroshima
       <<"U5C71", "U53E3", KEN>>,  \* 35 Yamaguchi
       <<"U5FB3", "U5CF6", KEN>>,  \* 36 Tokushima
       <<"U9999", "U5DDD", KEN>>,  \* 37 Kagawa
       <<"U611B", "U5A9B", KEN>>,  \* 38 Ehime
       <<"U9AD8", "U77E5", KEN>>,  \* 39 Kochi
       <<"U798F", "U5CA1", KEN>>,  \* 40 Fukuoka
       <<"U4F50", "U8CC0", KEN>>,  \* 41 Saga
       <<"U9577", "U5D0E", KEN>>,  \* 42 Nagasaki
       <<"U718A", "U672C", KEN>>,  \* 43 Kumamoto
       <<"U5927", "U5206", KEN>>,  \* 44 Oita
       <<"U5BAE", "U5D0E", KEN>>,  \* 45 Miyazaki
       <<"U9E7F", "U5150", "U5CF6", KEN>>,  \* 46 Kagoshima
       <<"U6C96", "U7E04", KEN>>   \* 47 Okinawa
    >>


(***************************************************************************)
(* Bounds of the model.                                                    *)
(***************************************************************************)
\* Number of consecutive entries of self.prefectures one modelled run iterates.
MaxRegions == 3
\* Largest number of regions in an outcome mapping handed directly to
\* generate_summary_report.
MaxSummaryRegions == 4
\* Largest total_prefectures in a summary handed to the notifier.
MaxTotal == 7

(***************************************************************************)
(* Python values.                                                          *)
(***************************************************************************)
\* os.getenv gives None ("UNSET") or the variable's text, which may be empty.
EnvValues == {"UNSET", "", "configured"}

\* Python truthiness of an Optional[str]: None and "" are falsy.
StrTruthy(v) == v \notin {"UNSET", ""}

\* A JSON value as json.loads gives it.  kind is the Python type ("dict",
\* "list", "NoneType"), len its number of entries; the other fields are the
\* entries of a mapping that the collector reads.
JsonValue(kind, len, prefecture, total_schools, schools, data_source) ==
    [kind |-> kind, len |-> len, prefecture |-> prefecture,
     total_schools |-> total_schools, schools |-> schools,
     data_source |-> data_source]

None == JsonValue("NoneType", 0, <<>>, 0, <<>>, "")
EmptyDict == JsonValue("dict", 0, <<>>, 0, <<>>, "")
NonEmptyList == JsonValue("list", 1, <<>>, 0, <<>>, "")
\* A non-empty mapping a live API answers with for a region.
LiveArtifact(prefecture) ==
    JsonValue("dict", 5, prefecture, 0, <<>>, "deepresearch_api")

\* Python truthiness of `if data:`: None is falsy, a container is truthy
\* exactly when it is not empty.
Truthy(v) == v.kind # "NoneType" /\ v.len > 0

\* str.replace(old, "") for a one-character old: every occurrence is removed.
Replace(s, old) == SelectSeq(s, LAMBDA c : c # old)

\* prefecture.replace(KEN, '').replace(TO, '').replace(FU, '')
Normalize(prefecture) == Replace(Replace(Replace(prefecture, KEN), TO), FU)

\* chr(n) for the code points of the capital letters.
chr(n) == <<"A", "B", "C", "D", "E", "F", "G", "H", "I", "J", "K", "L", "M",
            "N", "O", "P", "Q", "R", "S", "T", "U", "V", "W", "X", "Y", "Z">>[n - 64]

(***************************************************************************)
(* _generate_placeholder_data                                              *)
(***************************************************************************)
\* school_types = [kenritsu, shiritsu, kokuritsu]
school_types == << <<KEN, "U7ACB">>, <<"U79C1", "U7ACB">>, <<"U56FD", "U7ACB">> >>

\* range(5)
PlaceholderCount == 5

\* The literal suffix of every school name (koutou gakkou).
HighSchool == <<"U9AD8", "U7B49", "U5B66", "U6821">>

\* school_types[i % 3], i counted from 0 as in the source.
SchoolType_cycle2(i) == school_types[(i % 2) + 1]
SchoolType(i) == school_types[(i % 3) + 1]

school_name(prefecture, i) ==
    Normalize(prefecture) \o SchoolType(i) \o <<chr(65 + i)>> \o HighSchool

\* One school_data mapping.  hensachi adds hash(school_name) % 20, a value
\* fixed per process by the interpreter's string hash seed, to the part kept
\* here; last_updated and the text templates of i are not carried.
school_data(prefecture, i) ==
    [name |-> school_name(prefecture, i),
     prefecture |-> prefecture,
     type |-> SchoolType(i),
     hensachi_base |-> 50 + (i * 5),
     university_advancement_rate |-> 85 + (i * 2),
     capacity |-> 200 + (i * 40)]

_generate_placeholder_data(prefecture, key) ==
    LET schools == [k \in 1..PlaceholderCount |-> school_data(prefecture, k - 1)]
    IN  JsonValue("dict", 5, prefecture, Len(schools), schools,
                  IF ~StrTruthy(key) THEN "placeholder" ELSE "deepresearch_api")


(***************************************************************************)
(* State.                                                                  *)
(***************************************************************************)
VARIABLES
    api_key,       \* self.api_key of the collector
    first,         \* index in self.prefectures of the first region of the run
    i,             \* the loop counter of collect_all_prefectures (from 1)
    pc,            \* position of the collector process
    ret,           \* what _make_api_request gave: a value, or an exception
    data,          \* the local `data` of collect_all_prefectures
    results,       \* the local `results`: region -> bool
    files,         \* db/schools: file name -> content written
    fetch_calls,   \* regions _make_api_request was called for, in order
    http_gets,     \* the HTTP GETs issued, in order: region and what came back
    save_calls,    \* the calls of save_prefecture_data, in order, with outcome
    sleeps,        \* loop counters after which time.sleep(1) ran, in order
    summary,       \* content of collection_summary.json, NoSummary if none
    crash,         \* exception that left the collector's main(), or "none"
    webhook_url,   \* self.webhook_url of the notifier
    n_pc,          \* position of the notifier process
    n_results,     \* the summary mapping given to notify_deepresearch_completion
    n_message,     \* (category, status) of the message handed to the dispatcher
    n_color,       \* color handed to the dispatcher
    posts,         \* colors of the HTTP POSTs issued, in order
    log,           \* messages logged as [SLACK NOTIFICATION]
    n_return,      \* return value of _send_slack_message, "none" before
    n_raised       \* exception that left _send_slack_message, or "none"

collector_vars == <<api_key, first, i, pc, ret, data, results, files,
                    fetch_calls, http_gets, save_calls, sleeps, summary, crash>>
notifier_vars == <<webhook_url, n_pc, n_results, n_message, n_color, posts,
                   log, n_return, n_raised>>
vars == <<collector_vars, notifier_vars>>

NoSummary ==
    [written |-> FALSE, total_prefectures |-> 0, successful_collections |-> 0,
     failed_collections |-> 0, success_rate |-> "", results |-> <<>>,
     api_status |-> ""]

\* The regions one modelled run enumerates: MaxRegions consecutive entries.
RunPrefectures == SubSeq(prefectures, first, first + MaxRegions - 1)
\* total_prefectures = len(self.prefectures)
total_prefectures == Len(RunPrefectures)
\* The loop variable `prefecture` of the current iteration.
prefecture == RunPrefectures[i]

(***************************************************************************)
(* _make_api_request                                                       *)
(***************************************************************************)
\* The subclasses of requests.exceptions.RequestException that the GET,
\* raise_for_status() and response.json() raise.
RequestException == {"ConnectionError", "Timeout", "HTTPError", "JSONDecodeError"}

\* except requests.exceptions.RequestException
FetcherCatches_HTTPErrorOnly(e) == e = "HTTPError"
FetcherCatches(e) == e \in RequestException

\* What requests.get(...), raise_for_status() and response.json() can do for
\* a region: raise, or parse the body of a successful response.
GetOutcomes(p) ==
    [exc : RequestException, body : {None}]
    \cup [exc : {"none"}, body : {LiveArtifact(p), EmptyDict, NonEmptyList, None}]

Returned(v) == [raised |-> "none", value |-> v]
Raised(e) == [raised |-> e, value |-> None]

\* Lines 61-79, for one outcome of the request.
RequestResult(out) ==
    IF out.exc = "none" THEN Returned(out.body)
    ELSE IF FetcherCatches(out.exc) THEN Returned(None)
    ELSE Raised(out.exc)

\* collect_prefecture_data up to and including its call of _make_api_request.
MakeApiRequest ==
    /\ pc = "loop"
    /\ i <= total_prefectures
    /\ fetch_calls' = Append(fetch_calls, prefecture)
    /\ IF ~StrTruthy(api_key)
       THEN /\ ret' = Returned(_generate_placeholder_data(prefecture, api_key))
            /\ UNCHANGED http_gets
       ELSE \E out \in GetOutcomes(prefecture) :
                /\ ret' = RequestResult(out)
                /\ http_gets' = Append(http_gets, [prefecture |-> prefecture,
                                                    exc |-> out.exc])
    /\ pc' = "fetched"
    /\ UNCHANGED <<api_key, first, i, data, results, files, save_calls, sleeps,
                   summary, crash>>
    /\ UNCHANGED notifier_vars

\* The rest of collect_prefecture_data (lines 148-153): data.get on a truthy
\* value that is no mapping raises AttributeError; an exception of the
\* fetcher passes through.  Either exception reaches the handler of line 193.
CollectPrefectureData ==
    /\ pc = "fetched"
    /\ IF ret.raised # "none"
       THEN /\ pc' = "except"
            /\ UNCHANGED data
       ELSE IF Truthy(ret.value) /\ ret.value.kind # "dict"
       THEN /\ pc' = "except"
            /\ UNCHANGED data
       ELSE /\ pc' = "collected"
            /\ data' = ret.value
    /\ UNCHANGED <<api_key, first, i, ret, results, files, fetch_calls,
                   http_gets, save_calls, sleeps, summary, crash>>
    /\ UNCHANGED notifier_vars


(***************************************************************************)
(* save_prefecture_data                                                    *)
(***************************************************************************)
\* What writing a file can do: succeed, fail in open() before the file is
\* touched, or fail in json.dump after open() has truncated it.
WriteOutcomes == {"ok", "open_fails", "dump_fails"}

\* Content of a file whose write failed after open(): not a whole document.
Partial == JsonValue("partial", 0, <<>>, 0, <<>>, "")

\* A file name that leaves the region out.
filename_shared(p) == <<"_schools.json">>

\* filename = f"{prefecture.replace(...)...}_schools.json"
filename(p) == Append(Normalize(p), "_schools.json")

\* results[key] = value, and the same for the mapping of file contents.
Put(map, key, value) ==
    [k \in DOMAIN map \cup {key} |-> IF k = key THEN value ELSE map[k]]

\* The directory after save_prefecture_data(p, d) with write outcome o.
Written(fs, p, d, o) ==
    CASE o = "ok" -> Put(fs, filename(p), d)
      [] o = "dump_fails" -> Put(fs, filename(p), Partial)
      [] OTHER -> fs

\* The return value: every exception is caught (except Exception) and gives False.
save_prefecture_data(o) == o = "ok"

(***************************************************************************)
(* collect_all_prefectures                                                 *)
(***************************************************************************)
\* Lines 184-188.
RecordOutcome ==
    /\ pc = "collected"
    /\ IF Truthy(data)
       THEN \E o \in WriteOutcomes :
                /\ files' = Written(files, prefecture, data, o)
                /\ save_calls' = Append(save_calls, [prefecture |-> prefecture,
                                                      outcome |-> o])
                /\ results' = Put(results, prefecture, save_prefecture_data(o))
       ELSE /\ results' = Put(results, prefecture, FALSE)
            /\ UNCHANGED <<files, save_calls>>
    /\ pc' = "pace"
    /\ UNCHANGED <<api_key, first, i, ret, data, fetch_calls, http_gets,
                   sleeps, summary, crash>>
    /\ UNCHANGED notifier_vars

\* Lines 190-191, and the step to the next iteration.
Pace ==
    /\ pc = "pace"
    /\ sleeps' = IF i < total_prefectures THEN Append(sleeps, i) ELSE sleeps
    /\ i' = i + 1
    /\ pc' = "loop"
    /\ UNCHANGED <<api_key, first, ret, data, results, files, fetch_calls,
                   http_gets, save_calls, summary, crash>>
    /\ UNCHANGED notifier_vars

\* A loop without the handler of line 193: the exception ends the run.
ExceptHandler_abort ==
    /\ pc = "except"
    /\ pc' = "returned"
    /\ UNCHANGED <<api_key, first, i, ret, data, results, files, fetch_calls,
                   http_gets, save_calls, sleeps, summary, crash>>
    /\ UNCHANGED notifier_vars

\* Lines 193-195, and the step to the next iteration.
ExceptHandler ==
    /\ pc = "except"
    /\ results' = Put(results, prefecture, FALSE)
    /\ i' = i + 1
    /\ pc' = "loop"
    /\ UNCHANGED <<api_key, first, ret, data, files, fetch_calls, http_gets,
                   save_calls, sleeps, summary, crash>>
    /\ UNCHANGED notifier_vars

\* Line 197.
Return ==
    /\ pc = "loop"
    /\ i > total_prefectures
    /\ pc' = "returned"
    /\ UNCHANGED <<api_key, first, i, ret, data, results, files, fetch_calls,
                   http_gets, save_calls, sleeps, summary, crash>>
    /\ UNCHANGED notifier_vars


(***************************************************************************)
(* generate_summary_report                                                 *)
(***************************************************************************)
\* sum(1 for success in results.values() if success)
Successful_all(r) == Cardinality(DOMAIN r)
Successful(r) == Cardinality({k \in DOMAIN r : r[k]})

\* f"{(successful/total)*100:.1f}%" for total > 0: the quotient in tenths of
\* a percent, rounded to the nearest tenth, a tie to the even one.  (CPython
\* rounds the binary double; that agrees with this exact rounding for every
\* total below 80.)
Tenths(successful, total) ==
    LET q == (1000 * successful) \div total
        r == (1000 * successful) % total
    IN  IF 2 * r > total \/ (2 * r = total /\ q % 2 = 1) THEN q + 1 ELSE q

success_rate(successful, total) ==
    LET t == Tenths(successful, total)
    IN  ToString(t \div 10) \o "." \o ToString(t % 10) \o "%"

\* Lines 204-213.
Summary(r, key) ==
    LET successful == Successful(r)
        total == Cardinality(DOMAIN r)
    IN  [written |-> TRUE,
         total_prefectures |-> total,
         successful_collections |-> successful,
         failed_collections |-> total - successful,
         success_rate |-> success_rate(successful, total),
         results |-> r,
         api_status |-> IF StrTruthy(key) THEN "connected" ELSE "placeholder_mode"]

\* generate_summary_report(results) as main() calls it.  successful/total
\* raises ZeroDivisionError for an empty mapping, and a failure to open the
\* summary file raises OSError; neither is caught.
GenerateSummaryReport ==
    /\ pc = "returned"
    /\ IF Cardinality(DOMAIN results) = 0
       THEN /\ crash' = "ZeroDivisionError"
            /\ pc' = "crashed"
            /\ UNCHANGED summary
       ELSE \E o \in {"ok", "open_fails"} :
                IF o = "ok"
                THEN /\ summary' = Summary(results, api_key)
                     /\ pc' = "summarized"
                     /\ UNCHANGED crash
                ELSE /\ crash' = "OSError"
                     /\ pc' = "crashed"
                     /\ UNCHANGED summary
    /\ UNCHANGED <<api_key, first, i, ret, data, results, files, fetch_calls,
                   http_gets, save_calls, sleeps>>
    /\ UNCHANGED notifier_vars

(***************************************************************************)
(* SlackNotifier                                                           *)
(***************************************************************************)
\* Line 100: failed < total_prefectures / 2 is a comparison of an int with
\* the float quotient, which for integers is 2 * failed < total.
Status_HalfIsWarning(failed, total) ==
    IF failed = 0 THEN "success"
    ELSE IF 2 * failed <= total THEN "warning" ELSE "error"
Status(failed, total) ==
    IF failed = 0 THEN "success"
    ELSE IF 2 * failed < total THEN "warning" ELSE "error"

\* Line 101.
Color(status) ==
    IF status = "success" THEN "good"
    ELSE IF status = "warning" THEN "warning" ELSE "danger"

\* Line 135: color of notify_build_status.
BuildColor(status) ==
    IF status = "success" THEN "good"
    ELSE IF status = "failed" THEN "danger" ELSE "warning"

\* Line 152: color of notify_deployment.
DeployColor(status) == IF status = "success" THEN "good" ELSE "danger"

\* --status of the command line.
CliStatus == {"success", "failed", "warning"}

\* The call of _send_slack_message(message, color) that ends every notify_*.
Dispatch(category, status, color) ==
    /\ n_message' = [category |-> category, status |-> status]
    /\ n_color' = color
    /\ n_pc' = "send"
    /\ UNCHANGED <<webhook_url, n_results, posts, log, n_return, n_raised>>
    /\ UNCHANGED collector_vars

NotifyDeepresearchCompletion ==
    /\ n_pc = "start"
    /\ n_results.written
    /\ LET status == Status(n_results.failed_collections, n_results.total_prefectures)
       IN  Dispatch("deepresearch", status, Color(status))

NotifyCommit ==
    /\ n_pc = "start"
    /\ Dispatch("commit", "success", "good")

NotifyError ==
    /\ n_pc = "start"
    /\ Dispatch("error", "error", "danger")

NotifyBuildStatus ==
    /\ n_pc = "start"
    /\ \E st \in CliStatus : Dispatch("build", st, BuildColor(st))

NotifyDeployment ==
    /\ n_pc = "start"
    /\ \E st \in CliStatus : Dispatch("deploy", st, DeployColor(st))

TestConnection ==
    /\ n_pc = "start"
    /\ Dispatch("test", "success", "good")

\* What requests.post(...) and raise_for_status() can do.
PostOutcomes == {"ok", "ConnectionError", "Timeout", "HTTPError"}

\* except requests.exceptions.RequestException (line 73)
DispatcherCatches_TimeoutOnly(e) == e = "Timeout"
DispatcherCatches(e) == e \in RequestException

\* _send_slack_message(message, color)
SendSlackMessage ==
    /\ n_pc = "send"
    /\ IF ~StrTruthy(webhook_url)
       THEN /\ log' = Append(log, n_message)
            /\ n_return' = "True"
            /\ UNCHANGED <<posts, n_raised>>
       ELSE \E out \in PostOutcomes :
                /\ posts' = Append(posts, [color |-> n_color, text |-> n_message,
                                           outcome |-> out])
                /\ UNCHANGED log
                /\ IF out = "ok"
                   THEN n_return' = "True" /\ UNCHANGED n_raised
                   ELSE IF DispatcherCatches(out)
                   THEN n_return' = "False" /\ UNCHANGED n_raised
                   ELSE n_raised' = out /\ UNCHANGED n_return
    /\ n_pc' = "done"
    /\ UNCHANGED <<webhook_url, n_results, n_message, n_color>>
    /\ UNCHANGED collector_vars


(***************************************************************************)
(* Specifications.                                                         *)
(***************************************************************************)
CollectorIdle ==
    /\ api_key = "UNSET" /\ first = 1 /\ i = 1 /\ pc = "idle"
    /\ ret = Returned(None) /\ data = None
    /\ results = <<>> /\ files = <<>>
    /\ fetch_calls = <<>> /\ http_gets = <<>> /\ save_calls = <<>>
    /\ sleeps = <<>>
    /\ summary = NoSummary /\ crash = "none"

NotifierIdle ==
    /\ webhook_url = "UNSET" /\ n_pc = "idle" /\ n_results = NoSummary
    /\ n_message = [category |-> "", status |-> ""] /\ n_color = ""
    /\ posts = <<>> /\ log = <<>>
    /\ n_return = "none" /\ n_raised = "none"

\* The collector's main(): DeepResearchCollector() and the start of
\* collect_all_prefectures.
Init ==
    /\ api_key \in EnvValues
    /\ first \in 1..(Len(prefectures) - MaxRegions + 1)
    /\ i = 1 /\ pc = "loop"
    /\ ret = Returned(None) /\ data = None
    /\ results = <<>> /\ files = <<>>
    /\ fetch_calls = <<>> /\ http_gets = <<>> /\ save_calls = <<>>
    /\ sleeps = <<>>
    /\ summary = NoSummary /\ crash = "none"
    /\ NotifierIdle

Next ==
    \/ MakeApiRequest
    \/ CollectPrefectureData
    \/ RecordOutcome
    \/ Pace
    \/ ExceptHandler
    \/ Return
    \/ GenerateSummaryReport

Spec == Init /\ [][Next]_vars

\* generate_summary_report called with any outcome mapping over at most
\* MaxSummaryRegions regions, the empty one included.
OutcomeMappings ==
    UNION {[S -> BOOLEAN] :
             S \in SUBSET {prefectures[k] : k \in 1..MaxSummaryRegions}}

SummaryInit ==
    /\ api_key \in EnvValues
    /\ first = 1 /\ i = 1 /\ pc = "returned"
    /\ ret = Returned(None) /\ data = None
    /\ results \in OutcomeMappings
    /\ files = <<>>
    /\ fetch_calls = <<>> /\ http_gets = <<>> /\ save_calls = <<>>
    /\ sleeps = <<>>
    /\ summary = NoSummary /\ crash = "none"
    /\ NotifierIdle

SummaryNext == GenerateSummaryReport

SummarySpec == SummaryInit /\ [][SummaryNext]_vars

\* The summaries load_collection_results can hand to the notifier: counts
\* with failed_collections <= total_prefectures <= MaxTotal.
GivenSummary(t, f) ==
    [written |-> TRUE, total_prefectures |-> t, successful_collections |-> t - f,
     failed_collections |-> f,
     success_rate |-> IF t = 0 THEN "0%" ELSE success_rate(t - f, t),
     results |-> <<>>, api_status |-> "connected"]

GivenSummaries ==
    UNION {{GivenSummary(t, f) : f \in 0..t} : t \in 0..MaxTotal}

\* The notifier's main(): SlackNotifier() and the choice of --type.
NotifyInit ==
    /\ webhook_url \in EnvValues
    /\ n_pc = "start"
    /\ n_results \in GivenSummaries
    /\ n_message = [category |-> "", status |-> ""] /\ n_color = ""
    /\ posts = <<>> /\ log = <<>>
    /\ n_return = "none" /\ n_raised = "none"
    /\ CollectorIdle

NotifyNext ==
    \/ NotifyDeepresearchCompletion
    \/ NotifyCommit
    \/ NotifyError
    \/ NotifyBuildStatus
    \/ NotifyDeployment
    \/ TestConnection
    \/ SendSlackMessage

NotifySpec == NotifyInit /\ [][NotifyNext]_vars


(***************************************************************************)
(* Properties of the collector.                                            *)
(***************************************************************************)
Enumerated == {RunPrefectures[k] : k \in 1..Len(RunPrefectures)}
Last(seq) == seq[Len(seq)]
InLoop == pc \in {"loop", "fetched", "collected", "pace", "except"}
InIteration == pc \in {"fetched", "collected", "pace", "except"}
Returned_ == pc \in {"returned", "summarized", "crashed"}

\* C1: whatever fails per region, the regions are attempted once each in
\* enumeration order, the run can always go on to the next region, and the
\* mapping returned has one boolean entry for every region of the
\* enumeration and no other.
C1_EveryRegionExactlyOnce ==
    /\ fetch_calls = SubSeq(RunPrefectures, 1, Len(fetch_calls))
    /\ \A r \in DOMAIN results : r \in Enumerated /\ results[r] \in BOOLEAN
    /\ pc = "loop" =>
           /\ Len(fetch_calls) = i - 1
           /\ DOMAIN results = {RunPrefectures[k] : k \in 1..(i - 1)}
    /\ InLoop => ENABLED Next
    /\ Returned_ =>
           /\ fetch_calls = RunPrefectures
           /\ DOMAIN results = Enumerated

\* A run has returned in which the first region failed by an unexpected
\* exception and the last region succeeded all the same.
C1_Witness ==
    /\ pc = "returned"
    /\ results[RunPrefectures[1]] = FALSE
    /\ 1 \notin {sleeps[k] : k \in 1..Len(sleeps)}
    /\ results[RunPrefectures[MaxRegions]] = TRUE

\* C2: the fetcher is invoked once per region, and a region whose fetch gave
\* a mapping (an empty one included) has its artifact persisted and is marked
\* success, failure being left to an absent result or a failed save.
C2_PresentIsPersisted ==
    /\ InIteration => Len(fetch_calls) = i
    /\ (pc = "pace" /\ ret.raised = "none" /\ ret.value.kind = "dict") =>
           /\ Len(save_calls) > 0
           /\ Last(save_calls).prefecture = prefecture
           /\ results[prefecture] = (Last(save_calls).outcome = "ok")

\* C3: the fetcher never raises; with a credential every failed request
\* gives None, and without one it gives the placeholder mapping and no GET
\* is ever issued.
C3_FetcherNeverRaises ==
    /\ ret.raised = "none"
    /\ ~StrTruthy(api_key) =>
           /\ http_gets = <<>>
           /\ pc = "fetched" =>
                  /\ ret.value.kind = "dict"
                  /\ ret.value.data_source = "placeholder"
                  /\ ret.value.prefecture = prefecture
    /\ (StrTruthy(api_key) /\ pc = "fetched") =>
           /\ Len(http_gets) = i
           /\ Last(http_gets).prefecture = prefecture
           /\ Last(http_gets).exc # "none" => ret.value = None

\* A configured fetcher has answered None to a body that does not parse.
C3_Witness ==
    /\ pc = "fetched"
    /\ StrTruthy(api_key)
    /\ Last(http_gets).exc = "JSONDecodeError"
    /\ ret = Returned(None)

\* C4: after every region but the last the orchestrator has slept once,
\* whatever the region's outcome, and never after the last.
C4_SleepAfterEveryRegionButLast ==
    pc \in {"loop", "returned"} =>
        sleeps = [k \in 1..(IF i - 1 < total_prefectures
                            THEN i - 1 ELSE total_prefectures - 1) |-> k]

\* C5: the summary written for the orchestrator's mapping counts every
\* enumerated region once, the successes being the regions whose outcome is
\* true, and its rate is the one-decimal rendering of successful/total*100.
C5_SummaryCounts ==
    pc = "summarized" =>
        LET trues == Cardinality({k \in 1..Len(RunPrefectures) :
                                    results[RunPrefectures[k]]})
            total == summary.total_prefectures
        IN  /\ summary.written
            /\ total = Len(RunPrefectures)
            /\ summary.successful_collections = trues
            /\ summary.successful_collections + summary.failed_collections = total
            /\ \E w \in 0..100 : \E d \in 0..9 :
                   /\ summary.success_rate = ToString(w) \o "." \o ToString(d) \o "%"
                   /\ 2 * (10 * w + d) * total <= 2000 * trues + total
                   /\ 2 * (10 * w + d) * total >= 2000 * trues - total
            /\ trues = total => summary.success_rate = "100.0%"

\* A summary has been written for a run with successes and failures.
C5_Witness ==
    /\ pc = "summarized"
    /\ summary.successful_collections > 0
    /\ summary.failed_collections > 0


\* C6: given an empty outcome mapping, generate_summary_report does not
\* fail on the rate: unless the summary file cannot be opened, it writes a
\* summary whose total, success and failure counts are all 0.
C6_EmptyMappingWritesZeroSummary ==
    (DOMAIN results = {} /\ pc \in {"summarized", "crashed"} /\ crash # "OSError") =>
        /\ pc = "summarized"
        /\ summary.written
        /\ summary.total_prefectures = 0
        /\ summary.successful_collections = 0
        /\ summary.failed_collections = 0

(***************************************************************************)
(* Properties of the placeholder synthesizer.                              *)
(***************************************************************************)
\* The category tags in the order the claim gives them: A, B, C, A, B.
TagsInOrder ==
    << <<KEN, "U7ACB">>, <<"U79C1", "U7ACB">>, <<"U56FD", "U7ACB">>,
       <<KEN, "U7ACB">>, <<"U79C1", "U7ACB">> >>

PlaceholderFetched == pc = "fetched" /\ ~StrTruthy(api_key)

\* C9: for every region the placeholder mapping has exactly 5 records,
\* total_schools = 5 and provenance "placeholder"; every record carries the
\* region, and the tags in order are A, B, C, A, B.
C9_PlaceholderShape ==
    PlaceholderFetched =>
        LET d == ret.value
        IN  /\ Len(d.schools) = 5
            /\ d.total_schools = 5
            /\ d.data_source = "placeholder"
            /\ d.prefecture = prefecture
            /\ \A k \in 1..5 :
                   /\ d.schools[k].prefecture = prefecture
                   /\ d.schools[k].type = TagsInOrder[k]

\* The placeholder mapping of Tokyo (entry 13 of the enumeration) has been
\* synthesized.
C9_Witness ==
    /\ PlaceholderFetched
    /\ prefecture = prefectures[13]
    /\ ret.value.total_schools = 5
    /\ ret.value.schools[4].type = <<KEN, "U7ACB">>

\* The region name with only a trailing KEN, TO or FU taken off.
StripTrailingSuffix(p) ==
    IF Len(p) > 0 /\ p[Len(p)] \in {KEN, TO, FU} THEN SubSeq(p, 1, Len(p) - 1) ELSE p

StartsWith(s, prefix) ==
    Len(s) >= Len(prefix) /\ SubSeq(s, 1, Len(prefix)) = prefix

\* C10: for every region and every index, the synthesized name starts with
\* the region name stripped of its trailing suffix token only, followed by
\* the tag of the index and the letter chr('A' + index).
C10_NameKeepsInnerCharacters ==
    PlaceholderFetched =>
        \A k \in 1..5 :
            StartsWith(ret.value.schools[k].name,
                       StripTrailingSuffix(prefecture) \o TagsInOrder[k]
                           \o <<(<<"A", "B", "C", "D", "E">>)[k]>>)

(***************************************************************************)
(* Properties of the notifier.                                             *)
(***************************************************************************)
\* C7: without a webhook the dispatcher posts nothing, logs the message and
\* returns true; with one it issues exactly one POST, returns true exactly
\* when that POST succeeded, and never raises.
C7_DispatcherContract ==
    /\ n_raised = "none"
    /\ n_pc # "done" => posts = <<>> /\ log = <<>> /\ n_return = "none"
    /\ (n_pc = "done" /\ ~StrTruthy(webhook_url)) =>
           /\ posts = <<>>
           /\ log = <<n_message>>
           /\ n_return = "True"
    /\ (n_pc = "done" /\ StrTruthy(webhook_url)) =>
           /\ Len(posts) = 1
           /\ log = <<>>
           /\ posts[1].text = n_message
           /\ posts[1].color = n_color
           /\ n_return = (IF posts[1].outcome = "ok" THEN "True" ELSE "False")

\* A configured dispatcher has returned false for a POST that timed out.
C7_Witness ==
    /\ n_pc = "done"
    /\ StrTruthy(webhook_url)
    /\ Len(posts) = 1
    /\ posts[1].outcome = "Timeout"
    /\ n_return = "False"

\* C8: the collection-completion status is success (good) for no failure,
\* warning (warning) for fewer failures than half of the total, and error
\* (danger) otherwise, a failure count of exactly half included.
C8_SeverityThresholds ==
    (n_pc \in {"send", "done"} /\ n_message.category = "deepresearch") =>
        LET failed == n_results.failed_collections
            total == n_results.total_prefectures
        IN  /\ failed = 0 =>
                 n_message.status = "success" /\ n_color = "good"
            /\ (failed > 0 /\ 2 * failed < total) =>
                 n_message.status = "warning" /\ n_color = "warning"
            /\ (failed > 0 /\ 2 * failed >= total) =>
                 n_message.status = "error" /\ n_color = "danger"

\* A summary whose failures are exactly half of the total has been rated.
C8_Witness ==
    /\ n_pc = "send"
    /\ n_message.category = "deepresearch"
    /\ n_results.failed_collections > 0
    /\ 2 * n_results.failed_collections = n_results.total_prefectures
    /\ n_color = "danger"


(***************************************************************************)
(* Properties of the artifact files.                                       *)
(***************************************************************************)
\* The regions marked success so far.
Succeeded == {r \in DOMAIN results : results[r]}
\* The files that hold a whole artifact, and the truncated ones.
WholeFiles == {n \in DOMAIN files : files[n].kind = "dict"}
TruncatedFiles == {n \in DOMAIN files : files[n] = Partial}
\* The calls of save_prefecture_data that got as far as opening the file.
Opened == {k \in 1..Len(save_calls) : save_calls[k].outcome # "open_fails"}

\* The file names of the regions of the whole enumeration, by index.
Filenames == [k \in 1..Len(prefectures) |-> filename(prefectures[k])]
\* Two distinct regions of the enumeration never share a file name.
FilenamesDistinct ==
    \A a, b \in 1..Len(prefectures) : a # b => Filenames[a] # Filenames[b]

\* C11 as stated: file names are distinct for distinct regions, and after a
\* run with k successes exactly k artifact files have been written, each
\* holding the data of its own region.
C11_ExactlyOneFilePerSuccess ==
    /\ FilenamesDistinct
    /\ Returned_ =>
           /\ Cardinality(DOMAIN files) = Cardinality(Succeeded)
           /\ \A r \in Succeeded :
                  /\ filename(r) \in DOMAIN files
                  /\ files[filename(r)].prefecture = r

\* C11 amended: file names are distinct for distinct regions, no write
\* touches the file of another region, and after a run with k successes
\* exactly k files hold a whole artifact, each the data of its own region;
\* every other file is the truncated file of a region whose json.dump
\* failed and that is marked failure.
C11_OneWholeFilePerSuccess ==
    /\ FilenamesDistinct
    /\ Cardinality(DOMAIN files) = Cardinality(Opened)
    /\ \A k \in 1..Len(save_calls) :
           LET r == save_calls[k].prefecture
               o == save_calls[k].outcome
           IN  /\ o = "ok" =>
                      /\ filename(r) \in WholeFiles
                      /\ files[filename(r)].prefecture = r
               /\ o = "dump_fails" => filename(r) \in TruncatedFiles
               /\ o = "open_fails" => filename(r) \notin DOMAIN files
    /\ Returned_ =>
           /\ Cardinality(WholeFiles) = Cardinality(Succeeded)
           /\ WholeFiles = {filename(r) : r \in Succeeded}
           /\ \A n \in DOMAIN files \ WholeFiles :
                  \E r \in DOMAIN results : n = filename(r) /\ ~results[r]
                                              /\ files[n] = Partial

\* A run has returned with two whole artifacts of two regions and the
\* truncated file of a third, failed one.
C11_Witness ==
    /\ pc = "returned"
    /\ Cardinality(Succeeded) >= 2
    /\ Cardinality(WholeFiles) = Cardinality(Succeeded)
    /\ TruncatedFiles # {}

====
